---- MODULE Spec2Model ----
(***************************************************************************)
(* A model of purely's core (src/src/purely/core.py): the Option container *)
(* with its safe-navigation hooks, the presence assertion `ensure`, and    *)
(* the fluent Chain wrapper.                                               *)
(*                                                                         *)
(* The state is what a caller of the library can observe of one fluent     *)
(* expression: the object the last call was made on, the call and its      *)
(* arguments, what the call returned or raised, the arguments with which   *)
(* the caller-supplied function was invoked, and the contents of the one   *)
(* mutable container the wrapped values may refer to.                      *)
(***************************************************************************)
EXTENDS Naturals, Sequences, FiniteSets, TLC

\* Longest fluent chain a.b().c[...] that is explored.
MaxDepth == 2

-----------------------------------------------------------------------------
(* Python values *)

None == "None"

\* A plain value without attributes, items or a call protocol (such as 5),
\* and an object that has attributes, is callable and is a mutable mapping.
Plain == "a"
Obj == "obj"

Values == {None, Plain, Obj}

\* core.py:12, the private marker of "no default supplied"
SENTINEL == "_SENTINEL"

Keys == {"k"}
Missing == "<missing>"

\* Attribute names the caller navigates with.
Names == {"x", "nil", "missing", "map", "is_some", "unwrap_or"}

\* Functions and predicates a caller may supply: all total ones over Values.
Funcs == [Values -> Values]
Preds == [Values -> BOOLEAN]

-----------------------------------------------------------------------------
(* Objects, exceptions, outcomes *)

NoObj == [cls |-> "none", value |-> None]
NoExc == [cls |-> "none", msg |-> "", id |-> "none"]

\* core.py:31-32
Option(v) == [cls |-> "Option", value |-> v]

\* core.py:184-185
Chain(v) == [cls |-> "Chain", value |-> v]

\* A value that is not wrapped, as an argument of ensure.
Raw(v) == [cls |-> "raw", value |-> v]

\* An exception object; id tells one instance from another of equal message.
Exc(c, m, i) == [cls |-> c, msg |-> m, id |-> i]

\* ValueError(msg), constructed at the raise statement
ValueError(m) == Exc("ValueError", m, "new")

\* The default error objects, each made once when its function is defined.
UnwrapDefaultError == Exc("ValueError", "Called unwrap on None", "Option.unwrap")
EnsureDefaultError == Exc("ValueError", "Value is None", "ensure")
ChainDefaultError == Exc("ValueError", "Chain value is None", "Chain.ensure")

\* An error specification: a message, an error object, or none given.
ErrStr(s) == [tag |-> "str", s |-> s, e |-> NoExc]
ErrObj(e) == [tag |-> "exc", s |-> "", e |-> e]
Omitted == [tag |-> "omitted", s |-> "", e |-> NoExc]

CallerError == Exc("ValueError", "boom", "caller")
ErrorArgs == {Omitted, ErrStr("boom"), ErrObj(CallerError)}

\* What a call does: returns a new object, returns its receiver, returns a
\* plain value, returns one of Option's own bound methods, or raises.
\* calls: the arguments the caller-supplied function was invoked with, in order.
\* self: the receiver as the call leaves it.
New(o, self, calls) ==
    [kind |-> "new", obj |-> o, val |-> None, exc |-> NoExc, calls |-> calls, self |-> self]
Self(self, calls) ==
    [kind |-> "self", obj |-> NoObj, val |-> None, exc |-> NoExc, calls |-> calls, self |-> self]
Return(v, self, calls) ==
    [kind |-> "value", obj |-> NoObj, val |-> v, exc |-> NoExc, calls |-> calls, self |-> self]
Bound(n, self) ==
    [kind |-> "bound", obj |-> NoObj, val |-> n, exc |-> NoExc, calls |-> <<>>, self |-> self]
Raise(e, self, calls) ==
    [kind |-> "raise", obj |-> NoObj, val |-> None, exc |-> e, calls |-> calls, self |-> self]

Bool(b) == IF b THEN "True" ELSE "False"

-----------------------------------------------------------------------------
(* The wrapped values' own protocol: what getattr(value, name) finds *)

AttrTable ==
    [n \in {"x", "nil", "map"} |-> CASE n = "x" -> Plain [] n = "nil" -> None [] n = "map" -> Plain]

HasAttr(v, n) ==
    \/ v = Obj /\ n \in DOMAIN AttrTable
    \/ v = Obj /\ n \in {"__call__", "__getitem__", "__setitem__"}

AttributeError(v, n) == Exc("AttributeError", n, "new")
KeyError(k) == Exc("KeyError", k, "new")

-----------------------------------------------------------------------------
(* class Option, core.py:23-122 *)

\* core.py:34-35
Option_is_some(self) == Return(Bool(self.value # None), self, <<>>)

\* core.py:37-38
Option_is_none(self) == Return(Bool(self.value = None), self, <<>>)

\* A slip: the default is tested for truth instead of against the marker.
Option_unwrap_truthy(self, default, error) ==
    LET err == IF error = Omitted THEN ErrObj(UnwrapDefaultError) ELSE error
    IN  IF self.value # None THEN Return(self.value, self, <<>>)
        ELSE IF default \notin {SENTINEL, None} THEN Return(default, self, <<>>)
        ELSE IF err.tag = "str" THEN Raise(ValueError(err.s), self, <<>>)
        ELSE Raise(err.e, self, <<>>)

\* core.py:40-56.  default = SENTINEL and error = Omitted stand for the
\* parameters left to their defaults (lines 42-43).
Option_unwrap(self, default, error) ==
    LET err == IF error = Omitted THEN ErrObj(UnwrapDefaultError) ELSE error
    IN  IF self.value # None THEN Return(self.value, self, <<>>)
        ELSE IF default # SENTINEL THEN Return(default, self, <<>>)
        ELSE IF err.tag = "str" THEN Raise(ValueError(err.s), self, <<>>)
        ELSE Raise(err.e, self, <<>>)

\* A slip: the function is not applied, the value is wrapped again as it is.
Option_map_unapplied(self, func) ==
    IF self.value = None THEN New(Option(None), self, <<>>)
    ELSE New(Option(self.value), self, <<>>)

\* core.py:58-62
Option_map(self, func) ==
    IF self.value = None THEN New(Option(None), self, <<>>)
    ELSE New(Option(func[self.value]), self, <<self.value>>)

\* A slip: the predicate is evaluated before the presence test.
Option_filter_eager(self, predicate) ==
    IF predicate[self.value] /\ self.value # None THEN Self(self, <<self.value>>)
    ELSE New(Option(None), self, <<self.value>>)

\* core.py:64-67.  `and` evaluates the predicate only when the value is
\* not None.
Option_filter(self, predicate) ==
    IF self.value # None
    THEN IF predicate[self.value] THEN Self(self, <<self.value>>)
         ELSE New(Option(None), self, <<self.value>>)
    ELSE New(Option(None), self, <<>>)

\* A slip: a missing attribute is turned into absence.
Option_getattr_lenient(self, name) ==
    IF self.value = None THEN New(Option(None), self, <<>>)
    ELSE IF HasAttr(self.value, name) THEN New(Option(AttrTable[name]), self, <<>>)
    ELSE New(Option(None), self, <<>>)

\* core.py:71-79, Option.__getattr__
Option_getattr(self, name) ==
    IF self.value = None THEN New(Option(None), self, <<>>)
    ELSE IF HasAttr(self.value, name) THEN New(Option(AttrTable[name]), self, <<>>)
    ELSE Raise(AttributeError(self.value, name), self, <<>>)

\* core.py:81-90, Option.__call__; ret is what the wrapped callable returns.
Option_call(self, ret) ==
    IF self.value = None THEN New(Option(None), self, <<>>)
    ELSE IF HasAttr(self.value, "__call__") THEN New(Option(ret), self, <<>>)
    ELSE Raise(AttributeError(self.value, "__call__"), self, <<>>)

\* A slip: the guard does not return, as in __setitem__.
Option_getitem_unguarded(self, key, st) ==
    IF HasAttr(self.value, "__getitem__")
    THEN IF st[key] = Missing THEN Raise(KeyError(key), self, <<>>)
         ELSE New(Option(st[key]), self, <<>>)
    ELSE Raise(AttributeError(self.value, "__getitem__"), self, <<>>)

\* core.py:92-101, Option.__getitem__; st is the wrapped mapping's content.
Option_getitem(self, key, st) ==
    IF self.value = None THEN New(Option(None), self, <<>>)
    ELSE IF HasAttr(self.value, "__getitem__")
    THEN IF st[key] = Missing THEN Raise(KeyError(key), self, <<>>)
         ELSE New(Option(st[key]), self, <<>>)
    ELSE Raise(AttributeError(self.value, "__getitem__"), self, <<>>)

\* core.py:103-112, Option.__setitem__.  The guard of lines 108-109 is
\* `pass`: control goes on to line 111 whatever the value is.
Option_setitem(self, key, value, st) ==
    IF HasAttr(self.value, "__setitem__") THEN Return(None, self, <<>>)
    ELSE Raise(AttributeError(self.value, "__setitem__"), self, <<>>)

\* The wrapped mapping after Option.__setitem__ (core.py:111-112).
Option_setitem_store(self, key, value, st) ==
    IF HasAttr(self.value, "__setitem__") THEN [st EXCEPT ![key] = value] ELSE st

\* core.py:114-121, Option.__eq__; other is an object or Raw(v).
Option_eq(self, other) ==
    IF other.cls = "Option" THEN Return(Bool(self.value = other.value), self, <<>>)
    ELSE Return(Bool(other.cls = "raw" /\ self.value = other.value), self, <<>>)

\* The names Python finds on an Option without reaching __getattr__, among
\* those the caller navigates with: the methods of the class (core.py:34-67).
OptionMembers == {"is_some", "is_none", "unwrap", "map", "filter"}

\* option.name: Python calls __getattr__ only when the ordinary lookup on
\* the instance and its class finds nothing.
Option_attribute(self, name) ==
    IF name \in OptionMembers THEN Bound(name, self) ELSE Option_getattr(self, name)

\* option.unwrap_or(d): the class defines no unwrap_or, so the name goes
\* through __getattr__ and the call through __call__ of what that returned.
Option_unwrap_or(self, d, ret) ==
    LET looked == Option_attribute(self, "unwrap_or")
    IN  IF looked.kind = "new"
        THEN LET called == Option_call(looked.obj, ret)
             IN  [called EXCEPT !.self = self]
        ELSE looked

-----------------------------------------------------------------------------
(* ensure, core.py:129-148 *)

\* A slip: the Option is unwrapped without handing the error on.
ensure_drops_error(value, error) ==
    LET err == IF error = Omitted THEN ErrObj(EnsureDefaultError) ELSE error
    IN  IF value.cls = "Option"
        THEN [Option_unwrap(value, SENTINEL, Omitted) EXCEPT !.self = NoObj]
        ELSE IF value.value = None
        THEN IF err.tag = "str" THEN Raise(ValueError(err.s), NoObj, <<>>)
             ELSE Raise(err.e, NoObj, <<>>)
        ELSE Return(value.value, NoObj, <<>>)

\* core.py:129-148.  value is an Option or Raw(v); error = Omitted stands
\* for the parameter left to its default (line 130).  A free function has
\* no receiver.
ensure(value, error) ==
    LET err == IF error = Omitted THEN ErrObj(EnsureDefaultError) ELSE error
    IN  IF value.cls = "Option"
        THEN [Option_unwrap(value, SENTINEL, err) EXCEPT !.self = NoObj]
        ELSE IF value.value = None
        THEN IF err.tag = "str" THEN Raise(ValueError(err.s), NoObj, <<>>)
             ELSE Raise(err.e, NoObj, <<>>)
        ELSE Return(value.value, NoObj, <<>>)

-----------------------------------------------------------------------------
(* class Chain, core.py:181-213 *)

\* core.py:187-188
Chain_map(self, func) == New(Chain(func[self.value]), self, <<self.value>>)

\* core.py:190-191
Chain_then(self, func) == Chain_map(self, func)

\* core.py:193-194, Chain.__or__
Chain_or(self, func) == Chain_map(self, func)

\* A slip: tap keeps the function's result, in the receiver itself.
Chain_tap_keeps(self, func) ==
    Self(Chain(func[self.value]), <<self.value>>)

\* core.py:196-198
Chain_tap(self, func) == Self(self, <<self.value>>)

\* A slip: the caller's error is not handed on to ensure.
Chain_ensure_drops_error(self, error) ==
    LET r == ensure(Raw(self.value), ErrObj(ChainDefaultError))
    IN  IF r.kind = "raise" THEN [r EXCEPT !.self = self] ELSE Self(self, <<>>)

\* core.py:200-204.  error = Omitted stands for the parameter left to its
\* default (line 201).
Chain_ensure(self, error) ==
    LET err == IF error = Omitted THEN ErrObj(ChainDefaultError) ELSE error
        r == ensure(Raw(self.value), err)
    IN  IF r.kind = "raise" THEN [r EXCEPT !.self = self] ELSE Self(self, <<>>)

\* core.py:206-208
Chain_value(self) == Return(self.value, self, <<>>)

\* core.py:210-213, Chain.__eq__; other is an object or Raw(v).
Chain_eq(self, other) ==
    IF other.cls = "Chain" THEN Return(Bool(self.value = other.value), self, <<>>)
    ELSE Return(Bool(other.cls = "raw" /\ self.value = other.value), self, <<>>)

-----------------------------------------------------------------------------
(* The caller *)

VARIABLES
    recv,    \* the object the last call was made on, as it was before the call
    op,      \* the last call
    args,    \* its arguments
    result,  \* what it did (with result.self, the receiver after the call)
    store,   \* the content of the mapping Obj, by key
    depth    \* how many calls of the fluent chain led to the receiver

vars == <<recv, op, args, result, store, depth>>

NoArgs == [none |-> TRUE]

Init ==
    /\ recv = NoObj
    /\ op = "start"
    /\ args = NoArgs
    /\ result = Return(None, NoObj, <<>>)
    /\ store = [k \in Keys |-> Missing]
    /\ depth = 0

\* The caller goes on either with the object the last call returned
\* (a.b: one link further down the chain) or with the same receiver again.
Chained == result.kind = "new" /\ depth < MaxDepth
Receiver(link) == IF link THEN result.obj ELSE result.self
CanCall(link, cls) ==
    /\ link => Chained
    /\ Receiver(link).cls = cls

\* A method call: its receiver, its name and arguments, and its outcome.
Call(link, name, a, out) ==
    /\ recv' = Receiver(link)
    /\ op' = name
    /\ args' = a
    /\ result' = out
    /\ depth' = IF link THEN depth + 1 ELSE depth

\* Option(v), Chain(v)
Construct ==
    \E v \in Values : \E o \in {Option(v), Chain(v)} :
        /\ recv' = NoObj
        /\ op' = o.cls
        /\ args' = [value |-> v]
        /\ result' = New(o, NoObj, <<>>)
        /\ depth' = 0
        /\ UNCHANGED store

IsSome ==
    \E link \in BOOLEAN :
        /\ CanCall(link, "Option")
        /\ Call(link, "is_some", NoArgs, Option_is_some(Receiver(link)))
        /\ UNCHANGED store

IsNone ==
    \E link \in BOOLEAN :
        /\ CanCall(link, "Option")
        /\ Call(link, "is_none", NoArgs, Option_is_none(Receiver(link)))
        /\ UNCHANGED store

Unwrap ==
    \E link \in BOOLEAN, d \in Values \cup {SENTINEL}, e \in ErrorArgs :
        /\ CanCall(link, "Option")
        /\ Call(link, "unwrap", [default |-> d, error |-> e],
                Option_unwrap(Receiver(link), d, e))
        /\ UNCHANGED store

UnwrapOr ==
    \E link \in BOOLEAN, d \in Values, ret \in Values :
        /\ CanCall(link, "Option")
        /\ Call(link, "unwrap_or", [default |-> d],
                Option_unwrap_or(Receiver(link), d, ret))
        /\ UNCHANGED store

Map ==
    \E link \in BOOLEAN, f \in Funcs :
        /\ CanCall(link, "Option")
        /\ Call(link, "map", [func |-> f], Option_map(Receiver(link), f))
        /\ UNCHANGED store

Filter ==
    \E link \in BOOLEAN, p \in Preds :
        /\ CanCall(link, "Option")
        /\ Call(link, "filter", [predicate |-> p], Option_filter(Receiver(link), p))
        /\ UNCHANGED store

GetAttr ==
    \E link \in BOOLEAN, n \in Names :
        /\ CanCall(link, "Option")
        /\ Call(link, "getattr", [name |-> n], Option_attribute(Receiver(link), n))
        /\ UNCHANGED store

Invoke ==
    \E link \in BOOLEAN, ret \in Values :
        /\ CanCall(link, "Option")
        /\ Call(link, "call", NoArgs, Option_call(Receiver(link), ret))
        /\ UNCHANGED store

GetItem ==
    \E link \in BOOLEAN, k \in Keys :
        /\ CanCall(link, "Option")
        /\ Call(link, "getitem", [key |-> k], Option_getitem(Receiver(link), k, store))
        /\ UNCHANGED store

SetItem ==
    \E link \in BOOLEAN, k \in Keys, v \in Values :
        /\ CanCall(link, "Option")
        /\ Call(link, "setitem", [key |-> k, value |-> v],
                Option_setitem(Receiver(link), k, v, store))
        /\ store' = Option_setitem_store(Receiver(link), k, v, store)

OptionEq ==
    \E link \in BOOLEAN, other \in {Option(v) : v \in Values} \cup {Raw(v) : v \in Values} :
        /\ CanCall(link, "Option")
        /\ Call(link, "Option.eq", [other |-> other], Option_eq(Receiver(link), other))
        /\ UNCHANGED store

\* ensure(x, e) on a value that is not wrapped, or on an Option at hand
Ensure ==
    \E e \in ErrorArgs :
        \E value \in {Raw(v) : v \in Values}
                     \cup {o \in {result.obj, result.self} : o.cls = "Option"} :
            /\ recv' = NoObj
            /\ op' = "ensure"
            /\ args' = [value |-> value, error |-> e]
            /\ result' = ensure(value, e)
            /\ depth' = 0
            /\ UNCHANGED store

ChainMap ==
    \E link \in BOOLEAN, f \in Funcs :
        /\ CanCall(link, "Chain")
        /\ Call(link, "Chain.map", [func |-> f], Chain_map(Receiver(link), f))
        /\ UNCHANGED store

ChainThen ==
    \E link \in BOOLEAN, f \in Funcs :
        /\ CanCall(link, "Chain")
        /\ Call(link, "Chain.then", [func |-> f], Chain_then(Receiver(link), f))
        /\ UNCHANGED store

ChainOr ==
    \E link \in BOOLEAN, f \in Funcs :
        /\ CanCall(link, "Chain")
        /\ Call(link, "Chain.or", [func |-> f], Chain_or(Receiver(link), f))
        /\ UNCHANGED store

ChainTap ==
    \E link \in BOOLEAN, f \in Funcs :
        /\ CanCall(link, "Chain")
        /\ Call(link, "Chain.tap", [func |-> f], Chain_tap(Receiver(link), f))
        /\ UNCHANGED store

ChainEnsure ==
    \E link \in BOOLEAN, e \in ErrorArgs :
        /\ CanCall(link, "Chain")
        /\ Call(link, "Chain.ensure", [error |-> e], Chain_ensure(Receiver(link), e))
        /\ UNCHANGED store

ChainValue ==
    \E link \in BOOLEAN :
        /\ CanCall(link, "Chain")
        /\ Call(link, "Chain.value", NoArgs, Chain_value(Receiver(link)))
        /\ UNCHANGED store

ChainEq ==
    \E link \in BOOLEAN, other \in {Chain(v) : v \in Values} \cup {Raw(v) : v \in Values} :
        /\ CanCall(link, "Chain")
        /\ Call(link, "Chain.eq", [other |-> other], Chain_eq(Receiver(link), other))
        /\ UNCHANGED store

Next ==
    \/ Construct
    \/ IsSome
    \/ IsNone
    \/ Unwrap
    \/ UnwrapOr
    \/ Map
    \/ Filter
    \/ GetAttr
    \/ Invoke
    \/ GetItem
    \/ SetItem
    \/ OptionEq
    \/ Ensure
    \/ ChainMap
    \/ ChainThen
    \/ ChainOr
    \/ ChainTap
    \/ ChainEnsure
    \/ ChainValue
    \/ ChainEq

Spec == Init /\ [][Next]_vars

-----------------------------------------------------------------------------
(* Properties *)

Present == recv.value # None
Absent == recv.value = None

\* C1 (as claimed): unwrap_or(d) never fails, gives the wrapped value of
\* a present Option and d itself, not an Option, of an absent one.
C1_UnwrapOrReturnsValueOrDefault ==
    op = "unwrap_or" =>
        /\ result.kind = "value"
        /\ result.val = IF Present THEN recv.value ELSE args.default

\* C2 (as claimed): option[key] = value on an absent Option raises nothing,
\* returns nothing and leaves the Option absent.
C2_SetItemOnAbsentIsNoOp ==
    (op = "setitem" /\ Absent) =>
        /\ result.kind = "value"
        /\ result.val = None
        /\ result.self = recv

\* C3: an attribute, call or item-read step on an absent Option, with a
\* name Option does not define itself, does not fail and gives a new absent
\* Option; the caller may go on from that Option, so this holds at every
\* link of a chain that starts at an absent Option.
C3_NavigationCollapses ==
    ( /\ op \in {"getattr", "call", "getitem"}
      /\ Absent
      /\ (op = "getattr" => args.name \notin OptionMembers) ) =>
        /\ result.kind = "new"
        /\ result.obj = Option(None)
        /\ result.self = recv

C3_Witness ==
    /\ op = "getitem"
    /\ recv = Option(None)
    /\ depth >= 2
    /\ result.obj = Option(None)

\* C4 (as claimed): Option(v).map(f).map(g) == Option(g(f(v))) for every
\* present v and all f and g, also those that return None.
C4_FunctorCompositionForAll ==
    (op = "map" /\ Present) =>
        \A g \in Funcs :
            /\ result.kind = "new"
            /\ Option_map(result.obj, g).kind = "new"
            /\ Option_eq(Option_map(result.obj, g).obj,
                         Option(g[args.func[recv.value]])).val = "True"

\* C4 (amended): the law holds whenever f(v) is not None or g(None) is None.
C4_FunctorComposition ==
    (op = "map" /\ Present) =>
        \A g \in Funcs :
            (args.func[recv.value] # None \/ g[None] = None) =>
                /\ result.kind = "new"
                /\ Option_map(result.obj, g).kind = "new"
                /\ Option_eq(Option_map(result.obj, g).obj,
                             Option(g[args.func[recv.value]])).val = "True"

C4_Witness ==
    /\ op = "map"
    /\ recv = Option(Plain)
    /\ args.func[Plain] = Obj
    /\ result.obj = Option(Obj)

\* C5: ensure(Option(x), e) does what ensure(x, e) does: it returns x when
\* x is present; when x is absent it fails with message e for a string e,
\* raises e itself for an error object, and fails with "Value is None"
\* when e is left out.
C5_EnsureTreatsBothAlike ==
    (op = "ensure" /\ args.value.cls = "Option") =>
        LET x == args.value.value
            e == args.error
            raw == ensure(Raw(x), e)
        IN  /\ result.kind = raw.kind
            /\ result.val = raw.val
            /\ result.exc = raw.exc
            /\ x # None => (result.kind = "value" /\ result.val = x)
            /\ x = None =>
                /\ result.kind = "raise"
                /\ e.tag = "str" => result.exc = ValueError(e.s)
                /\ e.tag = "exc" => result.exc = e.e
                /\ e.tag = "omitted" =>
                    (result.exc.cls = "ValueError" /\ result.exc.msg = "Value is None")

C5_Witness ==
    /\ op = "ensure"
    /\ args.value = Option(None)
    /\ args.error = ErrStr("boom")
    /\ result.kind = "raise"
    /\ result.exc.msg = "boom"

\* C6: unwrap gives the wrapped value of a present Option whatever default
\* and error are; of an absent one it gives the default whenever one was
\* supplied (None too, and also beside an error); with no default it fails
\* with the given message, raises the given error object itself, or fails
\* with the standard "Called unwrap on None" error.
C6_Unwrap ==
    op = "unwrap" =>
        /\ Present => (result.kind = "value" /\ result.val = recv.value)
        /\ (Absent /\ args.default # SENTINEL) =>
            (result.kind = "value" /\ result.val = args.default)
        /\ (Absent /\ args.default = SENTINEL) =>
            /\ result.kind = "raise"
            /\ args.error.tag = "str" => result.exc = ValueError(args.error.s)
            /\ args.error.tag = "exc" => result.exc = args.error.e
            /\ args.error.tag = "omitted" =>
                (result.exc.cls = "ValueError" /\ result.exc.msg = "Called unwrap on None")

C6_Witness ==
    /\ op = "unwrap"
    /\ recv = Option(None)
    /\ args.default = None
    /\ args.error = ErrObj(CallerError)
    /\ result.kind = "value"
    /\ result.val = None

\* C7: map and filter on an absent Option give an absent Option, do not
\* fail and do not invoke the function or predicate; on a present Option
\* each invokes it exactly once, with the wrapped value.  The caller may go
\* on from the absent result, so no link of such a chain invokes anything.
C7_NoInvocationOnAbsence ==
    (op \in {"map", "filter"}) =>
        /\ Absent =>
            /\ result.kind = "new"
            /\ result.obj = Option(None)
            /\ result.calls = <<>>
        /\ Present => result.calls = <<recv.value>>

C7_Witness ==
    /\ op = "filter"
    /\ recv = Option(None)
    /\ depth >= 2
    /\ result.obj = Option(None)
    /\ result.calls = <<>>

\* C8 (as claimed): option.n on a present Option wraps v.n, or fails when
\* v has no n, for every name n, also the names of Option's own members.
C8_AttributeNavigationAnyName ==
    (op = "getattr" /\ Present) =>
        IF HasAttr(recv.value, args.name)
        THEN result.kind = "new" /\ result.obj = Option(AttrTable[args.name])
        ELSE result.kind = "raise" /\ result.exc.cls = "AttributeError"

\* C8 (amended): the same for every name n that is not a member of Option.
C8_AttributeNavigation ==
    (op = "getattr" /\ Present /\ args.name \notin OptionMembers) =>
        IF HasAttr(recv.value, args.name)
        THEN result.kind = "new" /\ result.obj = Option(AttrTable[args.name])
        ELSE result.kind = "raise" /\ result.exc.cls = "AttributeError"

C8_Witness ==
    /\ op = "getattr"
    /\ recv = Option(Obj)
    /\ args.name = "missing"
    /\ result.kind = "raise"

\* C9 (as claimed): Chain(v).ensure(e) fails exactly when ensure(v, e)
\* fails and with the same error, for e a string, an error object or left
\* out; otherwise it returns the receiving Chain, unchanged.
C9_ChainEnsureIsEnsure ==
    op = "Chain.ensure" =>
        LET free == ensure(Raw(recv.value), args.error)
        IN  IF free.kind = "raise"
            THEN result.kind = "raise" /\ result.exc = free.exc /\ result.self = recv
            ELSE result.kind = "self" /\ result.self = recv

\* C9 (amended): the same for e a string or an error object; with e left
\* out it fails, exactly when v is None, with Chain.ensure's own default
\* error, whose message is "Chain value is None".
C9_ChainEnsure ==
    op = "Chain.ensure" =>
        LET free == ensure(Raw(recv.value), args.error)
        IN  IF free.kind = "raise"
            THEN /\ result.kind = "raise"
                 /\ result.self = recv
                 /\ args.error # Omitted => result.exc = free.exc
                 /\ args.error = Omitted =>
                     (result.exc.cls = "ValueError" /\ result.exc.msg = "Chain value is None")
            ELSE result.kind = "self" /\ result.self = recv

C9_Witness ==
    /\ op = "Chain.ensure"
    /\ recv = Chain(None)
    /\ args.error = Omitted
    /\ result.kind = "raise"

\* C10: no Chain call changes its receiver; map, then and | invoke f once,
\* with the held value (None too), and return a new Chain holding f(value),
\* the three results being equal; tap invokes f once, drops what it
\* returns and returns the receiving Chain.
C10_ChainLeavesReceiver ==
    recv.cls = "Chain" =>
        /\ result.self = recv
        /\ op \in {"Chain.map", "Chain.then", "Chain.or"} =>
            /\ result.kind = "new"
            /\ result.obj = Chain(args.func[recv.value])
            /\ result.calls = <<recv.value>>
            /\ Chain_eq(Chain_map(recv, args.func).obj, Chain_then(recv, args.func).obj).val = "True"
            /\ Chain_eq(Chain_map(recv, args.func).obj, Chain_or(recv, args.func).obj).val = "True"
        /\ op = "Chain.tap" =>
            /\ result.kind = "self"
            /\ result.calls = <<recv.value>>

C10_Witness ==
    /\ op = "Chain.tap"
    /\ recv = Chain(None)
    /\ depth >= 2
    /\ args.func[None] = Plain
    /\ result.kind = "self"
    /\ result.self = Chain(None)

====
